---- MODULE Spec2Model ----
(***************************************************************************)
(* NACA 4-digit and 5-digit airfoil outline generator (naca.py).           *)
(*                                                                         *)
(* Reals are fixed-point integers: the real r is the integer r * Scale.    *)
(* Products and quotients are computed on magnitudes and truncated, so     *)
(* that (-a)*b = -(a*b) as in IEEE arithmetic.  TLC integers are 32 bit:   *)
(* Mul and Div split their operands so that no intermediate overflows.     *)
(*                                                                         *)
(* A designation argument is modelled by its text: a sign and a sequence   *)
(* of decimal digits.  An int argument is the text of its decimal          *)
(* representation; a str argument is its own text and may carry leading    *)
(* zeros.  int(naca_number) is IntOf, str(naca_number) is the digits.      *)
(***************************************************************************)
EXTENDS Integers, Sequences, FiniteSets, TLC

Root  == 10^3
Scale == Root * Root

\* Largest num_points the model constructs with; constructor calls draw
\* num_points from 0..MaxPoints (the source's default is 200).
MaxPoints == 4

Abs(a) == IF a < 0 THEN 0 - a ELSE a
Sgn(a) == IF a < 0 THEN 0 - 1 ELSE 1

\* a * b on non-negative fixed-point operands.
MulN(a, b) ==
    LET ah == a \div Root
        al == a % Root
        bh == b \div Root
        bl == b % Root
    IN  ah * bh + (ah * bl + al * bh) \div Root + (al * bl) \div Scale

Mul(a, b) == Sgn(a) * Sgn(b) * MulN(Abs(a), Abs(b))

RECURSIVE FracDigits(_, _, _)
\* n decimal digits of r / b, for 0 <= r < b.
FracDigits(r, b, n) ==
    IF n = 0 THEN 0
    ELSE ((r * 10) \div b) * 10^(n - 1) + FracDigits((r * 10) % b, b, n - 1)

\* a / b on fixed-point operands, a >= 0, b > 0.
DivN(a, b) == (a \div b) * Scale + FracDigits(a % b, b, 6)

Div(a, b) == Sgn(a) * Sgn(b) * DivN(Abs(a), Abs(b))

\* a / k and a * k for an integer literal k > 0.
DivInt(a, k) == Sgn(a) * (Abs(a) \div k)

Sq(a)   == Mul(a, a)
Cube(a) == Mul(Sq(a), a)
Pow4(a) == Mul(Cube(a), a)

RECURSIVE ISqrtIn(_, _, _)
\* Integer square root of v by bisection: lo * lo <= v < hi * hi.
ISqrtIn(v, lo, hi) ==
    IF hi - lo <= 1 THEN lo
    ELSE LET mid == (lo + hi) \div 2
         IN  IF mid * mid <= v THEN ISqrtIn(v, mid, hi) ELSE ISqrtIn(v, lo, mid)

ISqrt(v) == ISqrtIn(v, 0, 46340)

RECURSIVE Newton(_, _, _)
Newton(v, r, n) ==
    IF n = 0 \/ r = 0 THEN r ELSE Newton(v, (r + DivN(v, r)) \div 2, n - 1)

\* numpy.sqrt on a fixed-point operand v >= 0; exact at 0 and 1.
Sqrt(v) == IF v = 0 THEN 0 ELSE Newton(v, ISqrt(v) * Root, 3)

\* numpy.pi * 0.5
PiHalf == 1570796

\* numpy.cos on [0, pi/2], by its Taylor series in Horner form.
Cos(a) ==
    LET a2 == Sq(a)
        h6 == Scale - DivInt(a2, 132)
        h5 == Scale - DivInt(Mul(a2, h6), 90)
        h4 == Scale - DivInt(Mul(a2, h5), 56)
        h3 == Scale - DivInt(Mul(a2, h4), 30)
        h2 == Scale - DivInt(Mul(a2, h3), 12)
    IN  Scale - DivInt(Mul(a2, h2), 2)

\* sin(arctan(s)) and cos(arctan(s)): s / sqrt(1 + s^2) and 1 / sqrt(1 + s^2).
Hyp(s)    == Sqrt(Scale + Sq(s))
SinAtan(s) == Div(s, Hyp(s))
CosAtan(s) == Div(Scale, Hyp(s))


(***************************************************************************)
(* Sequences of reals (numpy arrays).                                      *)
(***************************************************************************)
Reverse(s) == [i \in 1..Len(s) |-> s[Len(s) + 1 - i]]

\* s[1:]
DropFirst(s) == IF Len(s) = 0 THEN << >> ELSE Tail(s)

\* numpy.linspace(start, stop, num), num >= 0, endpoint included.
Linspace(start, stop, num) ==
    IF num = 0 THEN << >>
    ELSE IF num = 1 THEN << start >>
    ELSE LET step == Div(stop - start, (num - 1) * Scale)
         IN  [i \in 1..num |->
                 IF i = num THEN stop ELSE start + Mul((i - 1) * Scale, step)]

HalfCosineWithoutComplement(start, stop, max_points) ==
    LET lin  == Linspace(start, stop, max_points)
        vals == [i \in 1..Len(lin) |-> Mul(PiHalf, lin[i])]
    IN  [i \in 1..Len(vals) |-> Cos(vals[i])]

\* NACA_Base._half_cosine_spacing
HalfCosineSpacing(start, stop, max_points) ==
    LET lin  == Linspace(start, stop, max_points)
        vals == [i \in 1..Len(lin) |-> Mul(PiHalf, lin[i])]
    IN  [i \in 1..Len(vals) |-> Scale - Cos(vals[i])]

(***************************************************************************)
(* Designation arguments.                                                  *)
(***************************************************************************)
RECURSIVE DigitsValue(_)
DigitsValue(ds) ==
    IF Len(ds) = 0 THEN 0
    ELSE 10 * DigitsValue(SubSeq(ds, 1, Len(ds) - 1)) + ds[Len(ds)]

\* int(naca_number)
IntOf(a) == IF a.neg THEN 0 - DigitsValue(a.digits) ELSE DigitsValue(a.digits)

\* str(naca_number)[i : j] of a non-negative argument (Python slice bounds).
StrSlice(a, i, j) ==
    SubSeq(a.digits, i + 1, IF j < Len(a.digits) THEN j ELSE Len(a.digits))

\* The real k / d, for d a power of ten that divides Scale.
FromRatio(k, d) == k * (Scale \div d)

\* float('%.3f' % v), v >= 0: v rounded to three decimals.
Round3(v) == ((v + Root \div 2) \div Root) * Root

NoObj == [family |-> "none"]
Ok(o)     == [err |-> "none", obj |-> o]
Raise(e)  == [err |-> e, obj |-> NoObj]

(***************************************************************************)
(* NACA_Base.__init__: the fields every airfoil object stores.             *)
(***************************************************************************)
BaseInit(naca_number, num_points, half_cosine_spacing) ==
    LET n == IntOf(naca_number)
    IN  IF ~(0 <= n /\ n <= 99999) THEN Raise("AssertionError")
        ELSE Ok([naca_number |-> n,
                 x_points |-> IF half_cosine_spacing
                              THEN HalfCosineSpacing(0, Scale, num_points)
                              ELSE Linspace(0, Scale, num_points)])

(***************************************************************************)
(* NACA_4                                                                  *)
(***************************************************************************)
NACA4InitCamberPositionWithTail(naca_number, num_points, half_cosine_spacing) ==
    LET b == BaseInit(naca_number, num_points, half_cosine_spacing)
    IN  IF b.err # "none" THEN b
        ELSE LET n  == b.obj.naca_number
                 xs == b.obj.x_points
             IN  Ok([family      |-> "NACA_4",
                     naca_number |-> n,
                     x_points    |-> xs,
                     cl          |-> Scale,
                     p           |-> FromRatio(n % 1000, 1000),
                     t           |-> FromRatio(n % 100, 100),
                     m           |-> FromRatio(n - (n % 1000), 100000),
                     x_over_c    |-> [i \in 1..Len(xs) |-> Div(xs[i], Scale)]])

NACA4Init(naca_number, num_points, half_cosine_spacing) ==
    LET b == BaseInit(naca_number, num_points, half_cosine_spacing)
    IN  IF b.err # "none" THEN b
        ELSE LET n  == b.obj.naca_number
                 xs == b.obj.x_points
                 cl == Scale
             IN  Ok([family      |-> "NACA_4",
                     naca_number |-> n,
                     x_points    |-> xs,
                     cl          |-> cl,
                     p           |-> FromRatio((n % 1000) - (n % 100), 1000),
                     t           |-> FromRatio(n % 100, 100),
                     m           |-> FromRatio(n - (n % 1000), 100000),
                     x_over_c    |-> [i \in 1..Len(xs) |-> Div(xs[i], cl)]])

\* The mask (x_points >= 0) & (x_points <= cl * p) at sample i.
Mask4(o, i) == o.x_points[i] >= 0 /\ o.x_points[i] <= Mul(o.cl, o.p)

MeanCamberLine4NoSpecialCase(o) ==
    [i \in 1..Len(o.x_points) |->
        Mul(Mul(o.m, Div(o.cl - o.x_points[i], Sq(Scale - o.p))),
            Scale + o.x_over_c[i] - 2 * o.p)]

\* NACA_4._mean_camber_line
MeanCamberLine4(o) ==
    IF o.p # 0
    THEN [i \in 1..Len(o.x_points) |->
            IF Mask4(o, i)
            THEN Mul(Mul(o.m, Div(o.x_points[i], Sq(o.p))), 2 * o.p - o.x_over_c[i])
            ELSE Mul(Mul(o.m, Div(o.cl - o.x_points[i], Sq(Scale - o.p))),
                     Scale + o.x_over_c[i] - 2 * o.p)]
    ELSE [i \in 1..Len(o.x_points) |-> IF Mask4(o, i) THEN 0 ELSE 0]

\* NACA_4._dyc_over_dx
DycOverDx4(o) ==
    IF o.p # 0
    THEN [i \in 1..Len(o.x_points) |->
            IF Mask4(o, i)
            THEN Mul(Div(2 * o.m, Sq(o.p)), o.p - o.x_over_c[i])
            ELSE Mul(Div(2 * o.m, Sq(Scale - o.p)), o.p - o.x_over_c[i])]
    ELSE [i \in 1..Len(o.x_points) |-> IF Mask4(o, i) THEN 0 ELSE 0]

\* Thickness coefficients of NACA_4._thickness.
A0_4 == 296900
A1_4 == -126000
A2_4 == -351600
A3_4 == 284300
A4_4 == -101500

Thickness4ClosedTrailingEdge(o) ==
    [i \in 1..Len(o.x_over_c) |->
        LET xc == o.x_over_c[i]
        IN  Mul(Mul(5 * o.t, o.cl),
                Mul(A0_4, Sqrt(xc)) + Mul(A1_4, xc) + Mul(A2_4, Sq(xc))
                + Mul(A3_4, Cube(xc)) + Mul(-103600, Pow4(xc)))]

\* NACA_4._thickness
Thickness4(o) ==
    [i \in 1..Len(o.x_over_c) |->
        LET xc    == o.x_over_c[i]
            term1 == Mul(A0_4, Sqrt(xc))
            term2 == Mul(A1_4, xc)
            term3 == Mul(A2_4, Sq(xc))
            term4 == Mul(A3_4, Cube(xc))
            term5 == Mul(A4_4, Pow4(xc))
        IN  Mul(Mul(5 * o.t, o.cl), term1 + term2 + term3 + term4 + term5)]

Surfaces4LowerOffsetSameSide(o) ==
    LET dyc_dx == DycOverDx4(o)
        yt     == Thickness4(o)
        yc     == MeanCamberLine4(o)
        I      == 1..Len(o.x_points)
    IN  [x_upper |-> [i \in I |-> o.x_points[i] - Mul(yt[i], SinAtan(dyc_dx[i]))],
         y_upper |-> [i \in I |-> yc[i] + Mul(yt[i], CosAtan(dyc_dx[i]))],
         x_lower |-> [i \in I |-> o.x_points[i] - Mul(yt[i], SinAtan(dyc_dx[i]))],
         y_lower |-> [i \in I |-> yc[i] - Mul(yt[i], CosAtan(dyc_dx[i]))]]

\* NACA_4._calculate_points, lines 131-138: the two surfaces.
Surfaces4(o) ==
    LET dyc_dx == DycOverDx4(o)
        yt     == Thickness4(o)
        yc     == MeanCamberLine4(o)
        I      == 1..Len(o.x_points)
    IN  [x_upper |-> [i \in I |-> o.x_points[i] - Mul(yt[i], SinAtan(dyc_dx[i]))],
         y_upper |-> [i \in I |-> yc[i] + Mul(yt[i], CosAtan(dyc_dx[i]))],
         x_lower |-> [i \in I |-> o.x_points[i] + Mul(yt[i], SinAtan(dyc_dx[i]))],
         y_lower |-> [i \in I |-> yc[i] - Mul(yt[i], CosAtan(dyc_dx[i]))]]

OutlineKeepingLeadingEdge(su) ==
    [x_pos |-> Reverse(su.x_upper) \o su.x_lower,
     y_pos |-> Reverse(su.y_upper) \o su.y_lower]

\* The outline of two surfaces: upper reversed, then lower without its first
\* point (NACA_4._calculate_points, lines 139-142).
Outline4(su) ==
    [x_pos |-> Reverse(su.x_upper) \o DropFirst(su.x_lower),
     y_pos |-> Reverse(su.y_upper) \o DropFirst(su.y_lower)]

\* NACA_4._calculate_points
CalculatePoints4(o) == Outline4(Surfaces4(o))

(***************************************************************************)
(* NACA_5                                                                  *)
(***************************************************************************)
MeanLineKeys == {210, 220, 221, 230, 231, 240, 241, 250, 251}

\* mean_line_map of NACA_5.__init__: identifier -> Mean_Line_Data(m, k1).
MeanLineMap ==
    [id \in MeanLineKeys |->
        CASE id = 210 -> [m |->  58000, k1 |-> 361400000]
          [] id = 220 -> [m |-> 126000, k1 |->  51640000]
          [] id = 221 -> [m |-> 130000, k1 |->  51990000]
          [] id = 230 -> [m |-> 202500, k1 |->  15957000]
          [] id = 231 -> [m |-> 217000, k1 |->  15793000]
          [] id = 240 -> [m |-> 290000, k1 |->   6643000]
          [] id = 241 -> [m |-> 318000, k1 |->   6520000]
          [] id = 250 -> [m |-> 391000, k1 |->   3230000]
          [] id = 251 -> [m |-> 441000, k1 |->   3191000]]

NoData == [m |-> -1, k1 |-> -1]

MeanLineGetNearest(identifier) ==
    IF identifier \in MeanLineKeys THEN MeanLineMap[identifier]
    ELSE IF identifier \div 100 = 2 THEN MeanLineMap[251]
    ELSE NoData

\* mean_line_map.get(identifier): the entry, or None.
MeanLineGet(identifier) ==
    IF identifier \in MeanLineKeys THEN MeanLineMap[identifier] ELSE NoData

\* Thickness coefficients self._a.
A5 == << 296900, -126000, -351600, 284300, -103600 >>

NACA5Init(naca_number, num_points, half_cosine_spacing) ==
    LET b == BaseInit(naca_number, num_points, half_cosine_spacing)
    IN  IF b.err # "none" THEN b
        ELSE LET n              == b.obj.naca_number
                 identifier     == n \div 100
                 mean_line_data == MeanLineGet(identifier)
                 s0             == StrSlice(naca_number, 0, 1)
                 s13            == StrSlice(naca_number, 1, 3)
                 s35            == StrSlice(naca_number, 3, 5)
             IN  IF mean_line_data = NoData THEN Raise("AssertionError")
                 ELSE IF Len(s0) = 0 THEN Raise("IndexError")
                 ELSE IF Len(s13) = 0 \/ Len(s35) = 0 THEN Raise("ValueError")
                 ELSE Ok([family      |-> "NACA_5",
                          naca_number |-> n,
                          x_points    |-> b.obj.x_points,
                          a           |-> A5,
                          cl          |-> DivInt(DivInt(DigitsValue(s0) * 3 * Scale, 2), 10),
                          p           |-> Round3(DivInt(DivInt(DigitsValue(s13) * Scale, 2), 100)),
                          t           |-> DivInt(DigitsValue(s35) * Scale, 100),
                          m           |-> mean_line_data.m,
                          k1          |-> mean_line_data.k1])

\* The mask x_points <= p at sample i.
Mask5(o, i) == o.x_points[i] <= o.p

\* 0.3 and 6.0
C03 == 300000
C6  == 6000000

\* NACA_5._dyc_over_dx
DycOverDx5(o) ==
    LET c == Mul(Mul(Div(o.cl, C03), Div(Scale, C6)), o.k1)
    IN  [i \in 1..Len(o.x_points) |->
            LET xi       == o.x_points[i]
                dyc_dx_1 == Mul(c, 3 * Sq(xi) - Mul(6 * o.m, xi)
                                   + Mul(Sq(o.m), 3 * Scale - o.m))
                dyc_dx_2 == Mul(Mul(c, Cube(o.m)), Scale)
            IN  IF Mask5(o, i) THEN dyc_dx_1 ELSE dyc_dx_2]

\* NACA_5._thickness
Thickness5(o) ==
    [i \in 1..Len(o.x_points) |->
        LET xi    == o.x_points[i]
            term1 == Mul(o.a[1], Sqrt(xi))
            term2 == Mul(o.a[2], xi)
            term3 == Mul(o.a[3], Sq(xi))
            term4 == Mul(o.a[4], Cube(xi))
            term5 == Mul(o.a[5], Pow4(xi))
        IN  Mul(5 * o.t, term1 + term2 + term3 + term4 + term5)]

\* yc_1 of NACA_5._calculate_points (lines 261-262), at the abscissa x.
CamberFwd5(o, x) ==
    Mul(Div(o.k1, C6),
        Cube(x) - Mul(3 * o.m, Sq(x)) + Mul(Mul(Sq(o.m), 3 * Scale - o.m), x))

\* yc_2 of NACA_5._calculate_points (line 263), at the abscissa x.
CamberAft5(o, x) == Mul(Mul(Div(o.k1, C6), Cube(o.m)), Scale - x)

\* zc = cl / 0.3 * yc of NACA_5._calculate_points (line 266).
CamberScale5(o, yc) == Mul(Div(o.cl, C03), yc)

\* The scaled camber height zc of NACA_5._calculate_points (lines 258-266).
Camber5(o) ==
    IF o.p = 0 THEN [i \in 1..Len(o.x_points) |-> 0]
    ELSE [i \in 1..Len(o.x_points) |->
            LET xi   == o.x_points[i]
                yc_1 == CamberFwd5(o, xi)
                yc_2 == CamberAft5(o, xi)
                yc   == IF Mask5(o, i) THEN yc_1 ELSE yc_2
            IN  CamberScale5(o, yc)]

\* NACA_5._calculate_points, lines 250-273: the two surfaces.
Surfaces5(o) ==
    LET yt == Thickness5(o)
        I  == 1..Len(o.x_points)
    IN  IF o.p = 0
        THEN [x_upper |-> o.x_points,
              y_upper |-> yt,
              x_lower |-> o.x_points,
              y_lower |-> [i \in I |-> 0 - yt[i]]]
        ELSE LET zc     == Camber5(o)
                 dyc_dx == DycOverDx5(o)
             IN  [x_upper |-> [i \in I |-> o.x_points[i] - Mul(yt[i], SinAtan(dyc_dx[i]))],
                  y_upper |-> [i \in I |-> zc[i] + Mul(yt[i], CosAtan(dyc_dx[i]))],
                  x_lower |-> [i \in I |-> o.x_points[i] + Mul(yt[i], SinAtan(dyc_dx[i]))],
                  y_lower |-> [i \in I |-> zc[i] - Mul(yt[i], CosAtan(dyc_dx[i]))]]

Outline5DroppingTrailingPoint(su) ==
    [x_pos |-> Reverse(su.x_upper) \o SubSeq(su.x_lower, 1, Len(su.x_lower) - 1),
     y_pos |-> Reverse(su.y_upper) \o SubSeq(su.y_lower, 1, Len(su.y_lower) - 1)]

\* The outline of two surfaces (NACA_5._calculate_points, lines 275-278).
Outline5(su) ==
    [x_pos |-> Reverse(su.x_upper) \o DropFirst(su.x_lower),
     y_pos |-> Reverse(su.y_upper) \o DropFirst(su.y_lower)]

\* NACA_5._calculate_points
CalculatePoints5(o) == Outline5(Surfaces5(o))

(***************************************************************************)
(* The public interface: constructors and property getters.                *)
(***************************************************************************)
\* self._calculate_points(), dispatched on the object's class.
CalculatePoints(o) ==
    IF o.family = "NACA_4" THEN CalculatePoints4(o) ELSE CalculatePoints5(o)

\* The upper and lower surface the outline of o is assembled from.
Surfaces(o) == IF o.family = "NACA_4" THEN Surfaces4(o) ELSE Surfaces5(o)

\* The camber height at each sample of o.
Camber(o) == IF o.family = "NACA_4" THEN MeanCamberLine4(o) ELSE Camber5(o)

\* A getter's effect: the object afterwards and the value returned.
PointsReversingSamples(o) ==
    [self  |-> [o EXCEPT !.x_points = Reverse(@)],
     value |-> [kind |-> "points"] @@ CalculatePoints(o)]

\* NACA_Base.points
Points(o) == [self |-> o, value |-> [kind |-> "points"] @@ CalculatePoints(o)]

\* NACA_Base.x_points
XPoints(o) == [self |-> o, value |-> [kind |-> "x_points", v |-> o.x_points]]

\* NACA_Base.naca_number
NacaNumber(o) == [self |-> o, value |-> [kind |-> "naca_number", v |-> o.naca_number]]

\* A constructor call: the class named by the request, on its arguments.
Construct(rq) ==
    IF rq.family = "NACA_4"
    THEN NACA4Init(rq.naca_number, rq.num_points, rq.half_cosine_spacing)
    ELSE NACA5Init(rq.naca_number, rq.num_points, rq.half_cosine_spacing)

Num(ds) == [neg |-> FALSE, digits |-> ds]

\* The designation arguments the model constructs with.
Designations ==
    { Num(<<0, 0, 1, 8>>),          \* '0018' (test fixture): symmetric
      Num(<<0>>),                   \* 0: zero thickness
      Num(<<2, 4, 1, 2>>),          \* 2412
      Num(<<2, 0, 1, 2>>),          \* 2012: p = 0 with m # 0
      Num(<<9, 9, 9, 9>>),
      Num(<<1, 0, 0, 0, 0>>),       \* 10000: first value above the 4-digit range
      Num(<<2, 3, 0, 1, 2>>),       \* 23012
      Num(<<2, 3, 1, 1, 2>>),       \* 23112 (test fixture)
      Num(<<2, 1, 0, 1, 2>>),
      Num(<<2, 5, 1, 0, 0>>),       \* 25100: zero thickness
      Num(<<2, 0, 0, 1, 2>>),       \* 20012: digits 2-3 are 00
      Num(<<2, 9, 9, 1, 2>>),       \* 29912: no table entry
      Num(<<9, 9, 9, 9, 9>>),
      Num(<<1, 0, 0, 0, 0, 0>>),    \* 100000
      Num(<<0, 2, 3, 0, 1, 2>>),    \* '023012'
      Num(<<0, 0, 0, 2, 1, 0, 1, 2>>),  \* '00021012': str(...)[1:3] is '00'
      [neg |-> TRUE, digits |-> <<1>>] }

Requests ==
    [family : {"NACA_4", "NACA_5"}, naca_number : Designations,
     num_points : 0..MaxPoints, half_cosine_spacing : BOOLEAN]

\* Construct, tabulated over the requests of the model (@@ makes the table
\* an explicit function, evaluated once).
Built == [rq \in Requests |-> Construct(rq)] @@ << >>

NoReq == [family |-> "none"]
NoRet == [kind |-> "none"]

VARIABLES
    req,    \* the arguments of the latest constructor call
    err,    \* the exception it raised, or "none"
    obj,    \* the object it returned, or NoObj
    ret,    \* the value the latest getter returned on obj
    first,  \* the outline the first access of obj.points returned
    prev    \* first of the object before, when obj was built from the same arguments

vars == << req, err, obj, ret, first, prev >>

Init ==
    /\ req = NoReq
    /\ err = "none"
    /\ obj = NoObj
    /\ ret = NoRet
    /\ first = NoRet
    /\ prev = NoRet

New(rq) ==
    LET r == Built[rq]
    IN  /\ req' = rq
        /\ err' = r.err
        /\ obj' = r.obj
        /\ ret' = NoRet
        /\ first' = NoRet

\* NACA_4(naca_number, num_points, half_cosine_spacing)
NewNACA4 ==
    \E a \in Designations, n \in 0..MaxPoints, h \in BOOLEAN :
        /\ New([family |-> "NACA_4", naca_number |-> a, num_points |-> n,
                half_cosine_spacing |-> h])
        /\ prev' = NoRet

\* NACA_5(naca_number, num_points, half_cosine_spacing)
NewNACA5 ==
    \E a \in Designations, n \in 0..MaxPoints, h \in BOOLEAN :
        /\ New([family |-> "NACA_5", naca_number |-> a, num_points |-> n,
                half_cosine_spacing |-> h])
        /\ prev' = NoRet

\* A second constructor call with the arguments of the latest one.
NewAgain ==
    /\ req # NoReq
    /\ New(req)
    /\ prev' = first

\* obj.points
GetPoints ==
    /\ obj # NoObj
    /\ LET g == Points(obj)
       IN  /\ obj' = g.self
           /\ ret' = g.value
           /\ first' = IF first = NoRet THEN g.value ELSE first
    /\ UNCHANGED << req, err, prev >>

\* obj.x_points
GetXPoints ==
    /\ obj # NoObj
    /\ LET g == XPoints(obj)
       IN  obj' = g.self /\ ret' = g.value
    /\ UNCHANGED << req, err, first, prev >>

\* obj.naca_number
GetNacaNumber ==
    /\ obj # NoObj
    /\ LET g == NacaNumber(obj)
       IN  obj' = g.self /\ ret' = g.value
    /\ UNCHANGED << req, err, first, prev >>

Next ==
    \/ NewNACA4
    \/ NewNACA5
    \/ NewAgain
    \/ GetPoints
    \/ GetXPoints
    \/ GetNacaNumber

Spec == Init /\ [][Next]_vars

(***************************************************************************)
(* Properties.                                                             *)
(***************************************************************************)
HasPoints == obj # NoObj /\ ret.kind = "points"

\* The integer value of the designation of the latest constructor call.
ReqInt == IntOf(req.naca_number)

\* Point i (counted from 0, as in the source) of the outline returned.
OutX(i) == ret.x_pos[i + 1]
OutY(i) == ret.y_pos[i + 1]

\* C1: every outline returned by a constructed airfoil has x and y sequences of
\* length 2 * num_points - 1.
C1_PointCount ==
    HasPoints =>
        /\ Len(ret.x_pos) = 2 * req.num_points - 1
        /\ Len(ret.y_pos) = 2 * req.num_points - 1

\* C2: the outline is reverse(upper) followed by lower without its first
\* element, upper and lower being indexed along ascending sample position:
\* outline[i] = upper[N-1-i] for 0 <= i <= N-1, outline[N-1+j] = lower[j] for
\* 1 <= j <= N-1, and the outline holds nothing else.
C2_OutlineOrder ==
    HasPoints =>
        LET su == Surfaces(obj)
            N  == req.num_points
        IN  /\ Len(obj.x_points) = N
            /\ \A i \in 1..(N - 1) : obj.x_points[i] < obj.x_points[i + 1]
            /\ Len(ret.x_pos) = (IF N = 0 THEN 0 ELSE 2 * N - 1)
            /\ Len(ret.y_pos) = Len(ret.x_pos)
            /\ \A i \in 0..(N - 1) :
                   /\ OutX(i) = su.x_upper[N - 1 - i + 1]
                   /\ OutY(i) = su.y_upper[N - 1 - i + 1]
            /\ \A j \in 1..(N - 1) :
                   /\ OutX(N - 1 + j) = su.x_lower[j + 1]
                   /\ OutY(N - 1 + j) = su.y_lower[j + 1]

C2_Witness ==
    /\ HasPoints
    /\ req.num_points >= 3
    /\ obj.family = "NACA_5"
    /\ obj.p > 0 /\ obj.t > 0 /\ obj.cl > 0

\* C3: a 4-digit designation in 0..9999 with hundreds digit 0 decodes to p = 0,
\* and with N >= 2 its outline is mirror-symmetric about the chord line:
\* x[i] = x[2N-2-i] and y[i] = -y[2N-2-i] for every i in 0..N-1.
C3_Symmetric ==
    ( /\ HasPoints
      /\ req.family = "NACA_4"
      /\ ReqInt \in 0..9999
      /\ (ReqInt \div 100) % 10 = 0
      /\ req.num_points >= 2 ) =>
        LET N == req.num_points
        IN  /\ obj.p = 0
            /\ \A i \in 0..(N - 1) :
                   /\ OutX(i) = OutX(2 * N - 2 - i)
                   /\ OutY(i) = 0 - OutY(2 * N - 2 - i)

C3_Witness ==
    /\ HasPoints
    /\ req.family = "NACA_4"
    /\ ReqInt = 2012
    /\ obj.m > 0
    /\ req.num_points >= 3
    /\ \E i \in 1..Len(ret.y_pos) : ret.y_pos[i] > 0

\* C4: the outline depends on (family, designation, num_points, spacing mode)
\* only.  No getter changes what the object stores; every access of points
\* returns the outline the first access returned, which is the outline of the
\* constructor's arguments; and an object built again from the same arguments
\* returns the outline the object before returned.
C4_Deterministic ==
    /\ obj # NoObj => obj = Construct(req).obj
    /\ HasPoints =>
           /\ ret = first
           /\ ret = [kind |-> "points"] @@ CalculatePoints(Construct(req).obj)
    /\ (first # NoRet /\ prev # NoRet) => first = prev

C4_Witness ==
    /\ HasPoints
    /\ prev # NoRet
    /\ first = prev
    /\ req.num_points >= 2
    /\ obj.t > 0

\* C5: a constructor call with num_points < 2 raises and yields no object.
C5_RejectsSmallCount ==
    (req # NoReq /\ req.num_points < 2) => (err # "none" /\ obj = NoObj)

\* C6: a constructor call with a designation outside the family's range
\* (NACA_4: 0..9999, NACA_5: 0..99999) raises and yields no object.  Stated for
\* calls with num_points >= 2, the sample counts the specification admits.
C6_RangePerFamily ==
    ( /\ req # NoReq
      /\ req.num_points >= 2
      /\ \/ req.family = "NACA_4" /\ ReqInt \notin 0..9999
         \/ req.family = "NACA_5" /\ ReqInt \notin 0..99999 ) =>
        (err # "none" /\ obj = NoObj)

\* C7: NACA_5 construction succeeds only if the three-digit prefix of the
\* designation is one of the nine table keys, and then (m, k1) is that key's
\* entry; for every other prefix it raises, and no object with an interpolated
\* or defaulted (m, k1) exists.
C7_TableLookup ==
    req.family = "NACA_5" =>
        LET prefix == ReqInt \div 100
            table  == { <<210,  58000, 361400000>>, <<220, 126000, 51640000>>,
                        <<221, 130000,  51990000>>, <<230, 202500, 15957000>>,
                        <<231, 217000,  15793000>>, <<240, 290000,  6643000>>,
                        <<241, 318000,   6520000>>, <<250, 391000,  3230000>>,
                        <<251, 441000,   3191000>> }
        IN  /\ err = "none" => (obj # NoObj /\ <<prefix, obj.m, obj.k1>> \in table)
            /\ prefix \notin {e[1] : e \in table} => (err # "none" /\ obj = NoObj)

C7_Witness ==
    /\ req.family = "NACA_5"
    /\ err = "none"
    /\ ReqInt \div 100 = 230
    /\ obj.m = 202500 /\ obj.k1 = 15957000

\* C8: for N >= 2 the outline point at index N-1 is the leading edge: its x is
\* 0 and its y is the camber height at the first sample, which is 0.
C8_LeadingEdge ==
    (HasPoints /\ req.num_points >= 2) =>
        LET N == req.num_points
        IN  /\ OutX(N - 1) = 0
            /\ OutY(N - 1) = Camber(obj)[1]
            /\ Camber(obj)[1] = 0

C8_Witness ==
    /\ HasPoints
    /\ req.num_points >= 2
    /\ req.half_cosine_spacing
    /\ obj.family = "NACA_5"
    /\ obj.p > 0 /\ obj.t > 0 /\ obj.cl > 0

\* C9 as claimed, on 4-digit outlines with N >= 2: the first and the last point
\* of the outline are distinct.
C9_EndsDistinct ==
    (HasPoints /\ req.family = "NACA_4" /\ req.num_points >= 2) =>
        LET last == 2 * req.num_points - 2
        IN  << OutX(0), OutY(0) >> # << OutX(last), OutY(last) >>

\* C9 amended: the first and the last point of a 4-digit outline with t > 0 and
\* N >= 2 are distinct; those of an outline with t = 0 are the same point.
C9_EndsDistinctWhenThick ==
    (HasPoints /\ req.num_points >= 1) =>
        LET last == Len(ret.x_pos) - 1
        IN  /\ (req.family = "NACA_4" /\ obj.t > 0 /\ req.num_points >= 2) =>
                   << OutX(0), OutY(0) >> # << OutX(last), OutY(last) >>
            /\ obj.t = 0 =>
                   << OutX(0), OutY(0) >> = << OutX(last), OutY(last) >>

C9_Witness ==
    /\ HasPoints
    /\ req.family = "NACA_4"
    /\ req.num_points >= 2
    /\ obj.t > 0 /\ obj.m > 0 /\ obj.p > 0
    /\ OutY(0) > OutY(2 * req.num_points - 2)

\* C10: a NACA_5 call with a designation in 0..99999 whose digits 2-3 are 00
\* succeeds with p = 0, and its outline has zero camber: upper[i] = (x_i, yt_i)
\* and lower[i] = (x_i, -yt_i).  Stated for designations of five significant
\* digits and num_points >= 2.
C10_FiveDigitZeroCamber ==
    ( /\ req.family = "NACA_5"
      /\ req.num_points >= 2
      /\ ReqInt \in 10000..99999
      /\ (ReqInt \div 100) % 100 = 0 ) =>
        /\ err = "none"
        /\ obj # NoObj
        /\ obj.p = 0
        /\ HasPoints =>
               LET su == Surfaces(obj)
                   yt == Thickness5(obj)
               IN  \A i \in 1..Len(obj.x_points) :
                       /\ Camber(obj)[i] = 0
                       /\ su.x_upper[i] = obj.x_points[i] /\ su.y_upper[i] = yt[i]
                       /\ su.x_lower[i] = obj.x_points[i] /\ su.y_lower[i] = 0 - yt[i]

\* C11: a NACA_4 object built from a designation of value n in 0..9999, given
\* as an int or as a string with or without leading zeros, stores
\* m = thousands digit / 100, p = hundreds digit / 10, t = last two digits / 100
\* and cl = 1.
C11_FourDigitDecode ==
    (req.family = "NACA_4" /\ ReqInt \in 0..9999) =>
        /\ err = "none"
        /\ obj # NoObj
        /\ obj.naca_number = ReqInt
        /\ obj.m = (ReqInt \div 1000) * (Scale \div 100)
        /\ obj.p = ((ReqInt \div 100) % 10) * (Scale \div 10)
        /\ obj.t = (ReqInt % 100) * (Scale \div 100)
        /\ obj.cl = Scale

C11_Witness ==
    /\ req.family = "NACA_4"
    /\ ReqInt = 2412
    /\ obj # NoObj
    /\ obj.m = 20000 /\ obj.p = 400000 /\ obj.t = 120000

C11_WitnessLeadingZeros ==
    /\ req.family = "NACA_4"
    /\ req.naca_number.digits = <<0, 0, 1, 8>>
    /\ obj # NoObj
    /\ obj.m = 0 /\ obj.p = 0 /\ obj.t = 180000

\* C12: every accepted NACA_5 input, int or string, is decoded from the five
\* digits d1 d2 d3 d4 d5 of its validated integer value: cl = 0.15 * d1,
\* p = (10 * d2 + d3) / 200, t = (10 * d4 + d5) / 100, and (m, k1) is the table
\* entry of 100 * d1 + 10 * d2 + d3.  Stated for calls with num_points >= 2.
C12_FiveDigitDecode ==
    (req.family = "NACA_5" /\ req.num_points >= 2 /\ err = "none") =>
        LET n   == ReqInt
            d1  == (n \div 10000) % 10
            d23 == (n \div 100) % 100
            d45 == n % 100
            key == 100 * d1 + d23
        IN  /\ obj.cl = d1 * ((15 * Scale) \div 100)
            /\ obj.p = d23 * (Scale \div 200)
            /\ obj.t = d45 * (Scale \div 100)
            /\ key \in MeanLineKeys
            /\ obj.m = MeanLineMap[key].m /\ obj.k1 = MeanLineMap[key].k1

\* C13: the slope a NACA_5 outline is offset with is, at every sample, the
\* derivative of the camber height used there:
\* (cl/0.3)*(k1/6)*(3x^2 - 6*m*x + m^2*(3 - m)) for x <= p, and the negative
\* constant -(cl/0.3)*(k1/6)*m^3 for x > p.
C13_SlopeIsDerivative ==
    (HasPoints /\ obj.family = "NACA_5" /\ obj.p # 0 /\ req.num_points >= 2) =>
        LET c == Mul(Mul(Div(obj.cl, C03), Div(Scale, C6)), obj.k1)
        IN  \A i \in 1..Len(obj.x_points) :
                LET xi == obj.x_points[i]
                IN  DycOverDx5(obj)[i] =
                        IF xi <= obj.p
                        THEN Mul(c, 3 * Sq(xi) - Mul(6 * obj.m, xi)
                                    + Mul(Sq(obj.m), 3 * Scale - obj.m))
                        ELSE 0 - Mul(c, Cube(obj.m))

\* C14: at every sample k the camber-line point is the midpoint of the upper and
\* the lower surface point, upper[k] + lower[k] = 2 * (x_k, yc_k); on the
\* outline, x[i] + x[2N-2-i] = 2 * x_sample[N-1-i] and
\* y[i] + y[2N-2-i] = 2 * yc[N-1-i] for every i in 0..N-1.
C14_CamberIsMidpoint ==
    HasPoints =>
        LET su == Surfaces(obj)
            yc == Camber(obj)
            N  == req.num_points
        IN  /\ \A k \in 1..N :
                   /\ su.x_upper[k] + su.x_lower[k] = 2 * obj.x_points[k]
                   /\ su.y_upper[k] + su.y_lower[k] = 2 * yc[k]
            /\ \A i \in 0..(N - 1) :
                   /\ OutX(i) + OutX(2 * N - 2 - i) = 2 * obj.x_points[N - 1 - i + 1]
                   /\ OutY(i) + OutY(2 * N - 2 - i) = 2 * yc[N - 1 - i + 1]

C14_Witness ==
    /\ HasPoints
    /\ obj.family = "NACA_4"
    /\ req.num_points >= 3
    /\ obj.m > 0 /\ obj.p > 0 /\ obj.t > 0
    /\ \E i \in 0..(req.num_points - 2) :
           /\ OutX(i) # obj.x_points[req.num_points - i]
           /\ OutY(i) + OutY(2 * req.num_points - 2 - i) # 0

\* Points i and j (counted from 0) of the outline returned are different points.
OutDistinct(i, j) == OutX(i) # OutX(j) \/ OutY(i) # OutY(j)

\* The point lower[0] the assembler drops is upper[0], the point at outline
\* index N-1.
DroppedIsLeadingEdge ==
    LET su == Surfaces(obj)
        N  == req.num_points
    IN  /\ su.x_lower[1] = su.x_upper[1]
        /\ su.y_lower[1] = su.y_upper[1]
        /\ OutX(N - 1) = su.x_upper[1]
        /\ OutY(N - 1) = su.y_upper[1]

\* outline[N-2], outline[N-1] and outline[N] are pairwise distinct.
AroundLeadingEdgeDistinct ==
    LET N == req.num_points
    IN  /\ OutDistinct(N - 2, N - 1)
        /\ OutDistinct(N - 1, N)
        /\ OutDistinct(N - 2, N)

C16_CamberContinuousAtBranch ==
    (/\ obj # NoObj
     /\ obj.family = "NACA_5"
     /\ req.num_points >= 2
     /\ ReqInt \in 10000..99999) =>
        Abs(CamberScale5(obj, CamberFwd5(obj, obj.p))
            - CamberScale5(obj, CamberAft5(obj, obj.p))) <= 100

====
